---- MODULE Spec2Model ----
\* RefBitClockCache (src/main.c): a fixed-capacity cache with a clock /
\* reference-bit eviction policy, an open-addressing key index with
\* tombstones, reference-counted value cells and one mutex.
EXTENDS Integers, Sequences, FiniteSets, TLC

\* ---------------------------------------------------------------- bounds
MaxCacheSize == 2      \* createCache is called with cache_size in 1..MaxCacheSize
NumThreads == 2        \* client threads
NumKeys == 3           \* keys of main.c's key array that the client threads use
NumValues == 2         \* distinct payload contents a caller buffer can hold
MaxCells == 3          \* CacheValue cells ever allocated in one run
MaxHold == 2           \* handles one thread holds at a time
AppThreads == 2        \* threadFunc tasks of app_main that run
AppNumKeys == 5        \* the first AppNumKeys keys of main.c's key array, in app_main
AppMaxCells == 6       \* CacheValue cells ever allocated in one test cycle of app_main

\* ------------------------------------------------------ program constants
STATE_EMPTY == 0
STATE_OCCUPIED == 1
STATE_TOMBSTONE == 2
NULL == 0
NOT_FOUND == -1        \* getCacheIndex's "return -1"
EVICTED == -1          \* cv->index = -1
NO_TOMBSTONE == -1     \* insertHash's tombstone_idx = -1
DANGLING == -1         \* a key pointer whose string has been freed
NUM_KEYS == 8          \* app_main: num_keys, the length of its key array
APP_CACHE_SIZE == 4    \* app_main: createCache(4, freeValue)

Threads == 1..NumThreads
\* Key k is the string keys[k-1] of app_main's array: 1 is "A", 2 is "B", ...
AllKeys == 1..NUM_KEYS
\* The keys the client threads use: "B", "C", ... ("C" and "D" have the same
\* home entry in the index of a two-slot cache, "B" and "D" in that of a
\* one-slot cache).
Keys == 2..(NumKeys + 1)
Values == 1..NumValues
CellIds == 1..MaxCells \* heap addresses of CacheValue cells, never reused

\* The bytes of key k: the one-character strings "A".."H".
KeyBytes(k) == <<64 + k>>

\* ---------------------------------------------------------- pure functions
RECURSIVE HasDivisor(_, _)
HasDivisor(n, i) ==
  IF i * i > n THEN FALSE
  ELSE IF n % i = 0 THEN TRUE
  ELSE HasDivisor(n, i + 1)

RECURSIVE next_prime(_)
next_prime(n) == IF ~HasDivisor(n, 2) THEN n ELSE next_prime(n + 1)

\* Bitwise exclusive or of the n low bits of a and b.
RECURSIVE XorBits(_, _, _)
XorBits(a, b, n) ==
  IF n = 0 THEN 0
  ELSE (((a % 2) + (b % 2)) % 2) + 2 * XorBits(a \div 2, b \div 2, n - 1)

\* One round of the hash loop on the 32-bit state h = <<high 16 bits, low 16 bits>>:
\* h ^= c; h *= 16777619 (= 256 * 2^16 + 403), modulo 2^32.
FnvStep(h, c) ==
  LET lo == XorBits(h[2], c, 16)
      p == lo * 403
      q == h[1] * 403 + lo * 256 + (p \div 65536)
  IN <<q % 65536, p % 65536>>

RECURSIVE FnvLoop(_, _, _)
FnvLoop(h, bytes, i) ==
  IF i > Len(bytes) THEN h ELSE FnvLoop(FnvStep(h, bytes[i]), bytes, i + 1)

\* 2166136261 = 33052 * 2^16 + 40389
Fnv(key, hash_size) ==
  LET h == FnvLoop(<<33052, 40389>>, KeyBytes(key), 1)
  IN (((h[1] % hash_size) * (65536 % hash_size)) + h[2]) % hash_size

\* The table sizes the index can have: next_prime(cache_size * 2) and the
\* sizes rehash grows it to.
RECURSIVE GrownSizes(_, _)
GrownSizes(size, n) ==
  IF n = 0 THEN {size} ELSE {size} \cup GrownSizes(next_prime(size * 2), n - 1)

HashSizes ==
  UNION {GrownSizes(next_prime(c * 2), 2) : c \in (1..MaxCacheSize) \cup {APP_CACHE_SIZE}}

\* hash(key, hash_size), tabulated once for the keys and sizes in use.
HashOf == [size \in HashSizes |-> [key \in AllKeys |-> Fnv(key, size)]]

hash(key, hash_size) ==
  IF hash_size \in HashSizes THEN HashOf[hash_size][key] ELSE Fnv(key, hash_size)

\* ------------------------------------------------------------ key index
\* The index is the record [table, size, used]: cache->hash_table,
\* cache->hash_size and cache->hash_used.  A probe loop that has examined every
\* entry of the table without meeting its exit condition never exits (the table
\* is not changed while it runs): its result carries hang = TRUE.

ZeroEntry == [key |-> NULL, cache_index |-> 0, state |-> STATE_EMPTY]

EmptyTable(size) == [h \in 0..(size - 1) |-> ZeroEntry]

\* Mutant of LookupProbe: the walk stops at a TOMBSTONE as it does at EMPTY.
RECURSIVE LookupProbeStopAtTombstone(_, _, _, _)
LookupProbeStopAtTombstone(ht, key, h, n) ==
  IF ht.table[h].state # STATE_OCCUPIED THEN [hang |-> FALSE, index |-> NOT_FOUND]
  ELSE IF ht.table[h].key = key THEN [hang |-> FALSE, index |-> ht.table[h].cache_index]
  ELSE IF n + 1 >= ht.size THEN [hang |-> TRUE, index |-> NOT_FOUND]
  ELSE LookupProbeStopAtTombstone(ht, key, (h + 1) % ht.size, n + 1)

RECURSIVE LookupProbe(_, _, _, _)
LookupProbe(ht, key, h, n) ==
  IF ht.table[h].state = STATE_EMPTY THEN [hang |-> FALSE, index |-> NOT_FOUND]
  ELSE IF ht.table[h].state = STATE_OCCUPIED /\ ht.table[h].key = key
       THEN [hang |-> FALSE, index |-> ht.table[h].cache_index]
  ELSE IF n + 1 >= ht.size THEN [hang |-> TRUE, index |-> NOT_FOUND]
  ELSE LookupProbe(ht, key, (h + 1) % ht.size, n + 1)

getCacheIndex(ht, key) == LookupProbe(ht, key, hash(key, ht.size), 0)

\* Mutant of EraseProbe: the matching entry is left OCCUPIED.
EraseProbeNoTombstone(ht, key, h, n) == [hang |-> FALSE, ht |-> ht]

RECURSIVE EraseProbe(_, _, _, _)
EraseProbe(ht, key, h, n) ==
  IF ht.table[h].state = STATE_EMPTY THEN [hang |-> FALSE, ht |-> ht]
  ELSE IF ht.table[h].state = STATE_OCCUPIED /\ ht.table[h].key = key
       THEN [hang |-> FALSE,
             ht |-> [ht EXCEPT !.table[h].state = STATE_TOMBSTONE, !.used = @ - 1]]
  ELSE IF n + 1 >= ht.size THEN [hang |-> TRUE, ht |-> ht]
  ELSE EraseProbe(ht, key, (h + 1) % ht.size, n + 1)

\* Mutant of eraseHash: the call returns at once and the key keeps its entry.
eraseHashKeepsEntry(ht, key) == [hang |-> FALSE, ht |-> ht]

eraseHash(ht, key) == EraseProbe(ht, key, hash(key, ht.size), 0)

\* free(key) on a slot's key string: the pointers to it that erased index
\* entries still hold become dangling.
FreeKey(ht, key) ==
  [ht EXCEPT !.table = [h \in DOMAIN @ |->
     IF @[h].state = STATE_TOMBSTONE /\ @[h].key = key
     THEN [@[h] EXCEPT !.key = DANGLING] ELSE @[h]]]

\* rehash's inner while loop: the first entry from h on that is not OCCUPIED.
RECURSIVE RehashPlace(_, _, _)
RehashPlace(table, size, h) ==
  IF table[h].state = STATE_OCCUPIED THEN RehashPlace(table, size, (h + 1) % size)
  ELSE h

\* Mutant of RehashCopy: every entry that is not EMPTY is migrated, the
\* TOMBSTONEs with the others.
RECURSIVE RehashCopyWithTombstones(_, _, _, _)
RehashCopyWithTombstones(old_table, old_size, ht, i) ==
  IF i >= old_size THEN ht
  ELSE IF old_table[i].state # STATE_EMPTY
       THEN LET h == RehashPlace(ht.table, ht.size, hash(old_table[i].key, ht.size))
            IN RehashCopyWithTombstones(old_table, old_size,
                          [ht EXCEPT !.table[h] = old_table[i], !.used = @ + 1], i + 1)
  ELSE RehashCopyWithTombstones(old_table, old_size, ht, i + 1)

\* rehash's for loop over the old table, from entry i on.
RECURSIVE RehashCopy(_, _, _, _)
RehashCopy(old_table, old_size, ht, i) ==
  IF i >= old_size THEN ht
  ELSE IF old_table[i].state = STATE_OCCUPIED
       THEN LET h == RehashPlace(ht.table, ht.size, hash(old_table[i].key, ht.size))
            IN RehashCopy(old_table, old_size,
                          [ht EXCEPT !.table[h] = old_table[i], !.used = @ + 1], i + 1)
  ELSE RehashCopy(old_table, old_size, ht, i + 1)

\* malloc_ok: whether the allocation of the larger table succeeds.
rehash(ht, malloc_ok) ==
  LET new_size == next_prime(ht.size * 2)
  IN IF ~malloc_ok THEN ht
     ELSE RehashCopy(ht.table, ht.size,
                     [table |-> EmptyTable(new_size), size |-> new_size, used |-> 0], 0)

\* Mutant of InsertProbe: an insert that reuses a TOMBSTONE does not count
\* the entry.
RECURSIVE InsertProbeTombstoneUncounted(_, _, _, _, _, _)
InsertProbeTombstoneUncounted(ht, key, idx, h, tombstone_idx, n) ==
  IF ht.table[h].state = STATE_EMPTY
  THEN LET at == IF tombstone_idx # NO_TOMBSTONE THEN tombstone_idx ELSE h
       IN [hang |-> FALSE,
           ht |-> [ht EXCEPT !.table[at] = [key |-> key, cache_index |-> idx,
                                            state |-> STATE_OCCUPIED],
                             !.used = IF tombstone_idx # NO_TOMBSTONE THEN @ ELSE @ + 1]]
  ELSE IF ht.table[h].state = STATE_OCCUPIED /\ ht.table[h].key = key
       THEN [hang |-> FALSE, ht |-> [ht EXCEPT !.table[h].cache_index = idx]]
  ELSE IF n + 1 >= ht.size THEN [hang |-> TRUE, ht |-> ht]
  ELSE InsertProbeTombstoneUncounted(ht, key, idx, (h + 1) % ht.size,
                   IF ht.table[h].state = STATE_TOMBSTONE /\ tombstone_idx = NO_TOMBSTONE
                   THEN h ELSE tombstone_idx,
                   n + 1)

RECURSIVE InsertProbe(_, _, _, _, _, _)
InsertProbe(ht, key, idx, h, tombstone_idx, n) ==
  IF ht.table[h].state = STATE_EMPTY
  THEN LET at == IF tombstone_idx # NO_TOMBSTONE THEN tombstone_idx ELSE h
       IN [hang |-> FALSE,
           ht |-> [ht EXCEPT !.table[at] = [key |-> key, cache_index |-> idx,
                                            state |-> STATE_OCCUPIED],
                             !.used = @ + 1]]
  ELSE IF ht.table[h].state = STATE_OCCUPIED /\ ht.table[h].key = key
       THEN [hang |-> FALSE, ht |-> [ht EXCEPT !.table[h].cache_index = idx]]
  ELSE IF n + 1 >= ht.size THEN [hang |-> TRUE, ht |-> ht]
  ELSE InsertProbe(ht, key, idx, (h + 1) % ht.size,
                   IF ht.table[h].state = STATE_TOMBSTONE /\ tombstone_idx = NO_TOMBSTONE
                   THEN h ELSE tombstone_idx,
                   n + 1)

\* The outcomes of the malloc in rehash that an insert into ht can meet.
RehashOutcomes(ht) == IF (ht.used * 10) \div ht.size >= 7 THEN BOOLEAN ELSE {TRUE}

\* Mutant of insertHash: the load is not tested and the table never grows.
insertHashNeverGrow(ht, key, idx, malloc_ok) ==
  InsertProbe(ht, key, idx, hash(key, ht.size), NO_TOMBSTONE, 0)

insertHash(ht, key, idx, malloc_ok) ==
  LET ht1 == IF (ht.used * 10) \div ht.size >= 7 THEN rehash(ht, malloc_ok) ELSE ht
  IN InsertProbe(ht1, key, idx, hash(key, ht1.size), NO_TOMBSTONE, 0)

\* ----------------------------------------------------------- value cells
\* A cell of the heap: st is "none" (never allocated), "live" or "freed";
\* frees counts the calls of value_free on its payload.
NoCell == [st |-> "none", data |-> 0, refcount |-> 0, index |-> 0, ref_bit |-> 0, frees |-> 0]

\* cache->value_free(cv->data); free(cv);  The content of freed memory is
\* indeterminate: only the fact that the cell is freed is kept.
FreeCell(cv) == [NoCell EXCEPT !.st = "freed", !.frees = cv.frees + 1]

\* ---------------------------------------------------------- victim search
\* Mutant of ClockSweep: an idle entry is taken at the first visit, whatever
\* its ref_bit.
RECURSIVE ClockSweepNoSecondChance(_, _, _, _, _, _)
ClockSweepNoSecondChance(ks, vs, cs, size, hand, attempts) ==
  IF attempts >= size * 2
  THEN [found |-> FALSE, idx |-> hand, hand |-> hand, cells |-> cs, attempts |-> attempts]
  ELSE IF vs[hand] = NULL \/ ks[hand] = NULL \/ cs[vs[hand]].refcount = 0
  THEN [found |-> TRUE, idx |-> hand, hand |-> (hand + 1) % size, cells |-> cs,
        attempts |-> attempts]
  ELSE ClockSweepNoSecondChance(ks, vs, [cs EXCEPT ![vs[hand]].ref_bit = 0], size,
                                (hand + 1) % size, attempts + 1)

\* Mutant of ClockSweep: the sweep gives up after one pass over the slots.
RECURSIVE ClockSweepOnePass(_, _, _, _, _, _)
ClockSweepOnePass(ks, vs, cs, size, hand, attempts) ==
  IF attempts >= size
  THEN [found |-> FALSE, idx |-> hand, hand |-> hand, cells |-> cs, attempts |-> attempts]
  ELSE IF vs[hand] = NULL \/ ks[hand] = NULL
          \/ (cs[vs[hand]].refcount = 0 /\ cs[vs[hand]].ref_bit = 0)
  THEN [found |-> TRUE, idx |-> hand, hand |-> (hand + 1) % size, cells |-> cs,
        attempts |-> attempts]
  ELSE ClockSweepOnePass(ks, vs, [cs EXCEPT ![vs[hand]].ref_bit = 0], size,
                         (hand + 1) % size, attempts + 1)

\* Mutant of ClockSweep: the sweep leaves the ref_bit of a pinned entry as it
\* is and clears only the ref_bit of idle entries.
RECURSIVE ClockSweepKeepPinnedBit(_, _, _, _, _, _)
ClockSweepKeepPinnedBit(ks, vs, cs, size, hand, attempts) ==
  IF attempts >= size * 2
  THEN [found |-> FALSE, idx |-> hand, hand |-> hand, cells |-> cs, attempts |-> attempts]
  ELSE IF vs[hand] = NULL \/ ks[hand] = NULL
          \/ (cs[vs[hand]].refcount = 0 /\ cs[vs[hand]].ref_bit = 0)
  THEN [found |-> TRUE, idx |-> hand, hand |-> (hand + 1) % size, cells |-> cs,
        attempts |-> attempts]
  ELSE ClockSweepKeepPinnedBit(ks, vs,
                               IF cs[vs[hand]].refcount > 0 THEN cs
                               ELSE [cs EXCEPT ![vs[hand]].ref_bit = 0],
                               size, (hand + 1) % size, attempts + 1)

\* The while loop of findClockVictim, from the given hand and attempt count.
RECURSIVE ClockSweep(_, _, _, _, _, _)
ClockSweep(ks, vs, cs, size, hand, attempts) ==
  IF attempts >= size * 2
  THEN [found |-> FALSE, idx |-> hand, hand |-> hand, cells |-> cs, attempts |-> attempts]
  ELSE LET idx == hand
           cv == vs[idx]
       IN IF cv = NULL \/ ks[idx] = NULL
          THEN [found |-> TRUE, idx |-> idx, hand |-> (idx + 1) % size, cells |-> cs,
                attempts |-> attempts]
          ELSE IF cs[cv].refcount = 0 /\ cs[cv].ref_bit = 0
          THEN [found |-> TRUE, idx |-> idx, hand |-> (idx + 1) % size, cells |-> cs,
                attempts |-> attempts]
          ELSE ClockSweep(ks, vs, [cs EXCEPT ![cv].ref_bit = 0], size,
                          (idx + 1) % size, attempts + 1)

\* Mutant of findClockVictim: the sweep starts at slot 0, not at the hand.
findClockVictimFromZero(ks, vs, cs, size, clock_hand0) ==
  LET sw == ClockSweep(ks, vs, cs, size, 0, 0)
      empties == {i \in 0..(size - 1) : ks[i] = NULL}
  IN IF sw.found
     THEN [idx |-> sw.idx, hand |-> sw.hand, cells |-> sw.cells, forced |-> FALSE,
           swept |-> TRUE, attempts |-> sw.attempts]
     ELSE IF empties # {}
     THEN [idx |-> CHOOSE i \in empties : \A j \in empties : i <= j,
           hand |-> sw.hand, cells |-> sw.cells, forced |-> FALSE,
           swept |-> FALSE, attempts |-> sw.attempts]
     ELSE [idx |-> 0, hand |-> sw.hand, cells |-> sw.cells, forced |-> TRUE,
           swept |-> FALSE, attempts |-> sw.attempts]

\* Mutant of findClockVictim: the sweep starts one slot after the hand.
findClockVictimAfterHand(ks, vs, cs, size, clock_hand0) ==
  LET start_hand == (clock_hand0 + 1) % size
      sw == ClockSweep(ks, vs, cs, size, start_hand, 0)
      empties == {i \in 0..(size - 1) : ks[i] = NULL}
  IN IF sw.found
     THEN [idx |-> sw.idx, hand |-> sw.hand, cells |-> sw.cells, forced |-> FALSE,
           swept |-> TRUE, attempts |-> sw.attempts]
     ELSE IF empties # {}
     THEN [idx |-> CHOOSE i \in empties : \A j \in empties : i <= j,
           hand |-> sw.hand, cells |-> sw.cells, forced |-> FALSE,
           swept |-> FALSE, attempts |-> sw.attempts]
     ELSE [idx |-> start_hand, hand |-> sw.hand, cells |-> sw.cells, forced |-> TRUE,
           swept |-> FALSE, attempts |-> sw.attempts]

\* Mutant of findClockVictim: a forced eviction leaves the hand one slot
\* after the victim, as a sweep does.
findClockVictimForcedAdvances(ks, vs, cs, size, clock_hand0) ==
  LET start_hand == clock_hand0
      sw == ClockSweep(ks, vs, cs, size, clock_hand0, 0)
      empties == {i \in 0..(size - 1) : ks[i] = NULL}
  IN IF sw.found
     THEN [idx |-> sw.idx, hand |-> sw.hand, cells |-> sw.cells, forced |-> FALSE,
           swept |-> TRUE, attempts |-> sw.attempts]
     ELSE IF empties # {}
     THEN [idx |-> CHOOSE i \in empties : \A j \in empties : i <= j,
           hand |-> sw.hand, cells |-> sw.cells, forced |-> FALSE,
           swept |-> FALSE, attempts |-> sw.attempts]
     ELSE [idx |-> start_hand, hand |-> (start_hand + 1) % size, cells |-> sw.cells,
           forced |-> TRUE, swept |-> FALSE, attempts |-> sw.attempts]

findClockVictim(ks, vs, cs, size, clock_hand0) ==
  LET start_hand == clock_hand0
      sw == ClockSweep(ks, vs, cs, size, clock_hand0, 0)
      empties == {i \in 0..(size - 1) : ks[i] = NULL}
  IN IF sw.found
     THEN [idx |-> sw.idx, hand |-> sw.hand, cells |-> sw.cells, forced |-> FALSE,
           swept |-> TRUE, attempts |-> sw.attempts]
     ELSE IF empties # {}
     THEN [idx |-> CHOOSE i \in empties : \A j \in empties : i <= j,
           hand |-> sw.hand, cells |-> sw.cells, forced |-> FALSE,
           swept |-> FALSE, attempts |-> sw.attempts]
     ELSE [idx |-> start_hand, hand |-> sw.hand, cells |-> sw.cells, forced |-> TRUE,
           swept |-> FALSE, attempts |-> sw.attempts]

\* -------------------------------------------------------- cell operations
\* Mutant of HitCell: the hit does not take a reference.
HitCellNoPin(cv) == [cv EXCEPT !.ref_bit = 1]

\* accessCache, hit path: cv->refcount++; cv->ref_bit = 1;
HitCell(cv) == [cv EXCEPT !.refcount = @ + 1, !.ref_bit = 1]

\* Mutant of RetireCell: the victim's cell is freed whatever its refcount.
RetireCellAlwaysFree(old) == FreeCell(old)

\* Mutant of RetireCell: a held victim cell is not marked as evicted.
RetireCellKeepIndex(old) == IF old.refcount = 0 THEN FreeCell(old) ELSE old

\* accessCache, the victim's old cell: freed when idle, else marked evicted.
RetireCell(old) ==
  IF old.refcount = 0 THEN FreeCell(old) ELSE [old EXCEPT !.index = EVICTED]

\* Mutant of AdmitCell: the payload keeps a pointer to the caller's buffer
\* instead of a copy of its bytes (0 stands for "whatever the buffer holds").
AdmitCellNoCopy(value, victim_idx) ==
  [st |-> "live", data |-> 0, refcount |-> 1, index |-> victim_idx,
   ref_bit |-> 1, frees |-> 0]

\* Mutant of AdmitCell: the new cell starts with its ref_bit clear.
AdmitCellRefBitClear(value, victim_idx) ==
  [st |-> "live", data |-> value, refcount |-> 1, index |-> victim_idx,
   ref_bit |-> 0, frees |-> 0]

\* Mutant of AdmitCell: the new cell is not counted as held by the caller
\* it is returned to.
AdmitCellUnpinned(value, victim_idx) ==
  [st |-> "live", data |-> value, refcount |-> 0, index |-> victim_idx,
   ref_bit |-> 1, frees |-> 0]

\* accessCache, admission: memcpy of the caller's bytes, refcount 1, ref_bit 1.
AdmitCell(value, victim_idx) ==
  [st |-> "live", data |-> value, refcount |-> 1, index |-> victim_idx,
   ref_bit |-> 1, frees |-> 0]

\* Mutant of ReleaseCell: the cell is freed as soon as its refcount is 0.
ReleaseCellFreeAtZero(cv) ==
  LET dec == [cv EXCEPT !.refcount = @ - 1]
  IN IF dec.refcount = 0 THEN FreeCell(dec) ELSE dec

\* Mutant of ReleaseCell: the release only decrements.
ReleaseCellNeverFree(cv) == [cv EXCEPT !.refcount = @ - 1]

\* releaseValue between cache_lock and cache_unlock.
ReleaseCell(cv) ==
  LET dec == [cv EXCEPT !.refcount = @ - 1]
  IN IF dec.refcount = 0 /\ dec.index = EVICTED THEN FreeCell(dec) ELSE dec

\* Mutant of FreeCacheCell: a held cell is left to its holders.
FreeCacheCellSkipHeld(cv) == IF cv.refcount = 0 THEN FreeCell(cv) ELSE cv

\* Mutant of FreeCacheCell: a held cell is handed over to its holders as an
\* evicted cell, to be freed by the last release.
FreeCacheCellMarkEvicted(cv) ==
  IF cv.refcount > 0 THEN [cv EXCEPT !.index = EVICTED] ELSE FreeCell(cv)

\* freeCache on the cell of a slot: freed when refcount > 0 and when refcount = 0.
FreeCacheCell(cv) ==
  IF cv.refcount > 0 THEN FreeCell(cv)
  ELSE IF cv.refcount = 0 THEN FreeCell(cv)
  ELSE cv

\* ------------------------------------------------------------------ state
VARIABLES
  cache_size,    \* cache->cache_size
  keys,          \* cache->cache.keys: slot -> key or NULL
  values,        \* cache->cache.values: slot -> cell or NULL
  clock_hand,    \* cache->cache.clock.clock_hand
  index,         \* [table, size, used]: hash_table, hash_size, hash_used
  cells,         \* the heap: cell address -> CacheValue
  ncells,        \* number of cells allocated so far
  lock,          \* cache->lock: 0 when free, else the thread that holds it
  destroyed,     \* freeCache has run
  pc,            \* thread -> where it is
  arg,           \* thread -> key of its accessCache call / cell of its releaseValue call
  held,          \* thread -> cell -> handles returned to it and not yet released
  buf            \* content of the callers' value buffer

vars == <<cache_size, keys, values, clock_hand, index, cells, ncells, lock, destroyed,
          pc, arg, held, buf>>

cacheVars == <<keys, values, clock_hand, index, cells, ncells>>

Slots == 0..(cache_size - 1)

RECURSIVE SumOver(_, _)
SumOver(f, S) ==
  IF S = {} THEN 0
  ELSE LET x == CHOOSE y \in S : TRUE IN f[x] + SumOver(f, S \ {x})

HeldCount(t) == SumOver(held[t], DOMAIN held[t])

\* Handles to cell c that were returned and not yet released.
Outstanding(c) == SumOver([t \in Threads |-> held[t][c]], Threads)

\* createCache(cache_size, value_free) succeeded.
Init ==
  /\ cache_size \in 1..MaxCacheSize
  /\ keys = [i \in 0..(cache_size - 1) |-> NULL]
  /\ values = [i \in 0..(cache_size - 1) |-> NULL]
  /\ clock_hand = 0
  /\ index = [table |-> EmptyTable(next_prime(cache_size * 2)),
              size |-> next_prime(cache_size * 2), used |-> 0]
  /\ cells = [c \in CellIds |-> NoCell]
  /\ ncells = 0
  /\ lock = 0
  /\ destroyed = FALSE
  /\ pc = [t \in Threads |-> "idle"]
  /\ arg = [t \in Threads |-> 0]
  /\ held = [t \in Threads |-> [c \in CellIds |-> 0]]
  /\ buf = 1

\* ---------------------------------------------------------------- access
\* accessCache from findClockVictim to the retirement of the victim's old
\* cell: the victim's key is erased from the index and freed, its cell is
\* freed or marked evicted, and both slot entries are cleared.
EvictVictim(ks, vs, cs, ht, size, hand) ==
  LET vic == findClockVictim(ks, vs, cs, size, hand)
      v == vic.idx
      er == IF ks[v] # NULL THEN eraseHash(ht, ks[v]) ELSE [hang |-> FALSE, ht |-> ht]
      old == vs[v]
  IN IF er.hang
     THEN [hang |-> TRUE, victim_idx |-> v, forced |-> vic.forced, old |-> old,
           keys |-> ks, values |-> vs, cells |-> vic.cells, index |-> ht, hand |-> vic.hand]
     ELSE [hang |-> FALSE, victim_idx |-> v, forced |-> vic.forced, old |-> old,
           keys |-> [ks EXCEPT ![v] = NULL],
           values |-> [vs EXCEPT ![v] = NULL],
           cells |-> IF old # NULL THEN [vic.cells EXCEPT ![old] = RetireCell(@)]
                     ELSE vic.cells,
           index |-> IF ks[v] # NULL THEN FreeKey(er.ht, ks[v]) ELSE er.ht,
           hand |-> vic.hand]

AllocFailures == {"key", "cell", "data"}

IsHit(look) == look.index # NOT_FOUND /\ values[look.index] # NULL

\* Mutant of Returned: the call returns without cache_unlock.
ReturnedLocked(t) ==
  /\ lock' = lock
  /\ pc' = [pc EXCEPT ![t] = "idle"]
  /\ arg' = [arg EXCEPT ![t] = 0]

\* What a call of accessCache or releaseValue leaves behind when it returns:
\* the mutex given back, the thread back in its caller.
Returned(t) ==
  /\ lock' = 0
  /\ pc' = [pc EXCEPT ![t] = "idle"]
  /\ arg' = [arg EXCEPT ![t] = 0]

\* A probe loop of the call never exits: the thread stays in it with the mutex.
Stuck(t) ==
  /\ lock' = t
  /\ pc' = [pc EXCEPT ![t] = "hung"]
  /\ arg' = [arg EXCEPT ![t] = 0]

\* accessCache(cache, k, &buf, size) whose lookup loop never exits.
HangBody(t, k) ==
  /\ getCacheIndex(index, k).hang
  /\ Stuck(t)
  /\ UNCHANGED <<cache_size, cacheVars, destroyed, held, buf>>

\* accessCache, hit: the cell in the key's slot is returned with refcount + 1
\* and ref_bit 1.
HitBody(t, k) ==
  LET look == getCacheIndex(index, k)
      cv == values[look.index]
  IN /\ ~look.hang /\ IsHit(look)
     /\ cells' = [cells EXCEPT ![cv] = HitCell(@)]
     /\ held' = [held EXCEPT ![t][cv] = @ + 1]
     /\ Returned(t)
     /\ UNCHANGED <<cache_size, keys, values, clock_hand, index, ncells, destroyed, buf>>

\* accessCache, miss with every allocation succeeding: the victim is retired
\* and the new key and a fresh cell are installed in its slot and in the index.
MissBody(t, k) ==
  LET look == getCacheIndex(index, k)
      ev == EvictVictim(keys, values, cells, index, cache_size, clock_hand)
      v == ev.victim_idx
      cv == ncells + 1
  IN /\ ~look.hang /\ ~IsHit(look)
     /\ \E malloc_ok \in RehashOutcomes(ev.index) :
          LET ins == insertHash(ev.index, k, v, malloc_ok)
          IN /\ clock_hand' = ev.hand
             /\ keys' = IF ev.hang THEN ev.keys ELSE [ev.keys EXCEPT ![v] = k]
             /\ values' = IF ev.hang THEN ev.values ELSE [ev.values EXCEPT ![v] = cv]
             /\ cells' = IF ev.hang THEN ev.cells
                         ELSE [ev.cells EXCEPT ![cv] = AdmitCell(buf, v)]
             /\ ncells' = IF ev.hang THEN ncells ELSE cv
             /\ index' = IF ev.hang THEN ev.index ELSE ins.ht
             /\ IF ev.hang \/ ins.hang
                THEN Stuck(t) /\ UNCHANGED held
                ELSE Returned(t) /\ held' = [held EXCEPT ![t][cv] = @ + 1]
     /\ UNCHANGED <<cache_size, destroyed, buf>>

\* Mutant of AllocFailBody: the failure return leaves the duplicated key in
\* the victim's slot.
AllocFailBodyKeepKey(t, k) ==
  LET look == getCacheIndex(index, k)
      ev == EvictVictim(keys, values, cells, index, cache_size, clock_hand)
  IN /\ ~look.hang /\ ~IsHit(look)
     /\ clock_hand' = ev.hand
     /\ keys' = [ev.keys EXCEPT ![ev.victim_idx] = k]
     /\ values' = ev.values
     /\ cells' = ev.cells
     /\ index' = ev.index
     /\ IF ev.hang THEN Stuck(t) ELSE Returned(t)
     /\ UNCHANGED <<cache_size, ncells, destroyed, held, buf>>

\* accessCache, miss on which strdup, the malloc of the cell or the malloc of
\* the payload fails: the victim is already retired, its slot stays empty and
\* NULL is returned.
AllocFailBody(t, k) ==
  LET look == getCacheIndex(index, k)
      ev == EvictVictim(keys, values, cells, index, cache_size, clock_hand)
  IN /\ ~look.hang /\ ~IsHit(look)
     /\ \E fail \in AllocFailures :
          /\ clock_hand' = ev.hand
          /\ keys' = ev.keys
          /\ values' = ev.values
          /\ cells' = ev.cells
          /\ index' = ev.index
          /\ IF ev.hang THEN Stuck(t) ELSE Returned(t)
     /\ UNCHANGED <<cache_size, ncells, destroyed, held, buf>>

\* releaseValue(cache, cv) between cache_lock and cache_unlock.
ReleaseBody(t, cv) ==
  /\ cells' = [cells EXCEPT ![cv] = ReleaseCell(@)]
  /\ held' = [held EXCEPT ![t][cv] = @ - 1]
  /\ Returned(t)
  /\ UNCHANGED <<cache_size, keys, values, clock_hand, index, ncells, destroyed, buf>>

\* The for loop of freeCache from slot i on.
RECURSIVE FreeCacheLoop(_, _, _, _, _, _)
FreeCacheLoop(ks, vs, cs, ht, size, i) ==
  IF i >= size THEN [hang |-> FALSE, keys |-> ks, values |-> vs, cells |-> cs, index |-> ht]
  ELSE LET er == IF ks[i] # NULL THEN eraseHash(ht, ks[i]) ELSE [hang |-> FALSE, ht |-> ht]
           cv == vs[i]
       IN IF er.hang
          THEN [hang |-> TRUE, keys |-> ks, values |-> vs, cells |-> cs, index |-> ht]
          ELSE FreeCacheLoop([ks EXCEPT ![i] = NULL],
                             [vs EXCEPT ![i] = NULL],
                             IF cv # NULL THEN [cs EXCEPT ![cv] = FreeCacheCell(@)] ELSE cs,
                             IF ks[i] # NULL THEN FreeKey(er.ht, ks[i]) ELSE er.ht,
                             size, i + 1)

\* freeCache(cache): no cache_lock; every slot's key and cell are freed, then
\* the slot arrays, the index table, the mutex and the cache itself.  What
\* the freed index table and cache object held is indeterminate from then on:
\* they are kept as an all-EMPTY table, a hand of 0 and a free mutex.
FreeCacheBody(t) ==
  LET fr == FreeCacheLoop(keys, values, cells, index, cache_size, 0)
  IN /\ keys' = fr.keys
     /\ values' = fr.values
     /\ cells' = fr.cells
     /\ index' = IF fr.hang THEN fr.index
                 ELSE [table |-> EmptyTable(index.size), size |-> index.size, used |-> 0]
     /\ clock_hand' = IF fr.hang THEN clock_hand ELSE 0
     /\ lock' = IF fr.hang THEN lock ELSE 0
     /\ destroyed' = ~fr.hang
     /\ pc' = [pc EXCEPT ![t] = IF fr.hang THEN "hung" ELSE "idle"]
     /\ UNCHANGED <<cache_size, ncells, arg, held, buf>>

\* ------------------------------------------------- operations, call by call
\* A thread that finds the mutex free runs its whole call in one step: the
\* critical section is atomic for every other taker of the mutex.
CanCall(t) == pc[t] = "idle" /\ ~destroyed

CanAccess(t) == CanCall(t) /\ lock = 0 /\ ncells < MaxCells /\ HeldCount(t) < MaxHold

AccessHang(t, k) == CanAccess(t) /\ HangBody(t, k)

AccessHit(t, k) == CanAccess(t) /\ HitBody(t, k)

AccessMiss(t, k) == CanAccess(t) /\ MissBody(t, k)

AccessAllocFail(t, k) == CanAccess(t) /\ AllocFailBody(t, k)

\* releaseValue on a handle the thread holds.
Release(t, cv) == CanCall(t) /\ lock = 0 /\ held[t][cv] > 0 /\ ReleaseBody(t, cv)

FreeCache(t) == CanCall(t) /\ FreeCacheBody(t)

\* A caller overwrites the value buffer (app_main's values array, which the
\* threads share) between calls.
WriteBuffer(v) ==
  /\ ~destroyed
  /\ buf # v
  /\ buf' = v
  /\ UNCHANGED <<cache_size, cacheVars, lock, destroyed, pc, arg, held>>

Next ==
  \/ \E t \in Threads, k \in Keys : AccessHang(t, k)
  \/ \E t \in Threads, k \in Keys : AccessHit(t, k)
  \/ \E t \in Threads, k \in Keys : AccessMiss(t, k)
  \/ \E t \in Threads, k \in Keys : AccessAllocFail(t, k)
  \/ \E t \in Threads, cv \in CellIds : Release(t, cv)
  \/ \E t \in Threads : FreeCache(t)
  \/ \E v \in Values : WriteBuffer(v)

Spec == Init /\ [][Next]_vars

\* ------------------------------------------------- operations, step by step
\* The same calls with the taking of the mutex and the critical section as
\* separate steps, and with the two operations that take no mutex.
InCall == {"access", "release", "print", "destroy"}

\* cache_lock at the entry of accessCache(cache, k, &buf, size).
AccessLock(t, k) ==
  /\ CanAccess(t)
  /\ lock' = t
  /\ pc' = [pc EXCEPT ![t] = "access"]
  /\ arg' = [arg EXCEPT ![t] = k]
  /\ UNCHANGED <<cache_size, cacheVars, destroyed, held, buf>>

\* accessCache from the lookup to cache_unlock and return.
AccessStep(t) ==
  /\ pc[t] = "access" /\ ~destroyed
  /\ \/ HangBody(t, arg[t])
     \/ HitBody(t, arg[t])
     \/ MissBody(t, arg[t])
     \/ AllocFailBody(t, arg[t])

\* cache_lock at the entry of releaseValue(cache, cv).
ReleaseLock(t, cv) ==
  /\ CanCall(t) /\ lock = 0 /\ held[t][cv] > 0
  /\ lock' = t
  /\ pc' = [pc EXCEPT ![t] = "release"]
  /\ arg' = [arg EXCEPT ![t] = cv]
  /\ UNCHANGED <<cache_size, cacheVars, destroyed, held, buf>>

ReleaseStep(t) ==
  /\ pc[t] = "release" /\ ~destroyed
  /\ ReleaseBody(t, arg[t])

\* printCacheState(cache) called by a client: it takes no lock and starts
\* reading the slot arrays and the cells whatever the state of the mutex.
PrintEnter(t) ==
  /\ CanCall(t)
  /\ pc' = [pc EXCEPT ![t] = "print"]
  /\ UNCHANGED <<cache_size, cacheVars, lock, destroyed, arg, held, buf>>

PrintStep(t) ==
  /\ pc[t] = "print" /\ ~destroyed
  /\ pc' = [pc EXCEPT ![t] = "idle"]
  /\ UNCHANGED <<cache_size, cacheVars, lock, destroyed, arg, held, buf>>

\* freeCache(cache) is entered whatever the state of the mutex.
FreeCacheEnter(t) ==
  /\ CanCall(t)
  /\ \A u \in Threads : pc[u] # "destroy"
  /\ pc' = [pc EXCEPT ![t] = "destroy"]
  /\ UNCHANGED <<cache_size, cacheVars, lock, destroyed, arg, held, buf>>

FreeCacheStep(t) ==
  /\ pc[t] = "destroy" /\ ~destroyed
  /\ FreeCacheBody(t)

\* A call that was under way when the cache was destroyed goes on in freed
\* memory: its behaviour is undefined and is not followed further.
UseAfterDestroy(t) ==
  /\ destroyed
  /\ pc[t] \in {"access", "release", "print"}
  /\ pc' = [pc EXCEPT ![t] = "ub"]
  /\ UNCHANGED <<cache_size, cacheVars, lock, destroyed, arg, held, buf>>

NextSteps ==
  \/ \E t \in Threads, k \in Keys : AccessLock(t, k)
  \/ \E t \in Threads : AccessStep(t)
  \/ \E t \in Threads, cv \in CellIds : ReleaseLock(t, cv)
  \/ \E t \in Threads : ReleaseStep(t)
  \/ \E t \in Threads : PrintEnter(t)
  \/ \E t \in Threads : PrintStep(t)
  \/ \E t \in Threads : FreeCacheEnter(t)
  \/ \E t \in Threads : FreeCacheStep(t)
  \/ \E t \in Threads : UseAfterDestroy(t)

SpecSteps == Init /\ [][NextSteps]_vars

\* ------------------------------------------------------ the index by itself
\* The index that createCache makes, driven by any sequence of insertHash and
\* eraseHash calls with keys of the key array and slot numbers of the cache;
\* the slot arrays and the cells are left as createCache made them.  A call
\* whose probe loop never exits leaves its caller in the loop.
IndexIdle == ~destroyed /\ \A t \in Threads : pc[t] = "idle"

\* insertHash(cache, k, i) called by thread t; malloc_ok: whether rehash's
\* allocation succeeds, when rehash is called.
IndexInsert(t, k, i, malloc_ok) ==
  LET ins == insertHash(index, k, i, malloc_ok)
  IN /\ IndexIdle
     /\ index' = ins.ht
     /\ pc' = IF ins.hang THEN [pc EXCEPT ![t] = "hung"] ELSE pc
     /\ UNCHANGED <<cache_size, keys, values, clock_hand, cells, ncells, lock, destroyed,
                    arg, held, buf>>

\* eraseHash(cache, k) called by thread t.
IndexErase(t, k) ==
  LET er == eraseHash(index, k)
  IN /\ IndexIdle
     /\ index' = er.ht
     /\ pc' = IF er.hang THEN [pc EXCEPT ![t] = "hung"] ELSE pc
     /\ UNCHANGED <<cache_size, keys, values, clock_hand, cells, ncells, lock, destroyed,
                    arg, held, buf>>

NextIndex ==
  \/ \E t \in Threads, k \in Keys, i \in Slots :
       \E malloc_ok \in RehashOutcomes(index) : IndexInsert(t, k, i, malloc_ok)
  \/ \E t \in Threads, k \in Keys : IndexErase(t, k)

SpecIndex == Init /\ [][NextIndex]_vars
\* --------------------------------------------------------- the test cycle
\* One test cycle of app_main: createCache(4, freeValue), worker tasks that
\* run threadFunc (an accessCache of a key of the array and, when it returned
\* a cell, its releaseValue, again and again), and freeCache once the workers
\* are done.  Every allocation of the cycle succeeds (the failure returns are
\* followed in Spec), and every key is offered with the same bytes: buf is
\* not written.
AppKeys == 1..AppNumKeys

AppCellIds == 1..AppMaxCells

InitApp ==
  /\ cache_size = APP_CACHE_SIZE
  /\ keys = [i \in 0..(APP_CACHE_SIZE - 1) |-> NULL]
  /\ values = [i \in 0..(APP_CACHE_SIZE - 1) |-> NULL]
  /\ clock_hand = 0
  /\ index = [table |-> EmptyTable(next_prime(APP_CACHE_SIZE * 2)),
              size |-> next_prime(APP_CACHE_SIZE * 2), used |-> 0]
  /\ cells = [c \in AppCellIds |-> NoCell]
  /\ ncells = 0
  /\ lock = 0
  /\ destroyed = FALSE
  /\ pc = [t \in Threads |-> "idle"]
  /\ arg = [t \in Threads |-> 0]
  /\ held = [t \in Threads |-> [c \in AppCellIds |-> 0]]
  /\ buf = 1

\* threadFunc calls accessCache at the top of its loop, holding no cell.
AppCanAccess(t) == CanCall(t) /\ lock = 0 /\ ncells < AppMaxCells /\ HeldCount(t) = 0

AppHit(t, k) == AppCanAccess(t) /\ HitBody(t, k)

AppMiss(t, k) == AppCanAccess(t) /\ MissBody(t, k)

\* cv = accessCache(t->cache, t->keys[idx], &t->values[idx], sizeof(int));
AppAccess(t, k) ==
  /\ AppCanAccess(t)
  /\ \/ HangBody(t, k)
     \/ HitBody(t, k)
     \/ MissBody(t, k)

\* if (cv) releaseValue(t->cache, cv);
AppRelease(t) == \E cv \in AppCellIds : Release(t, cv)

\* freeCache(cache) by app_main after every worker has given done_sem.
AppFreeCache ==
  /\ \A t \in Threads : pc[t] = "idle" /\ HeldCount(t) = 0
  /\ ~destroyed
  /\ FreeCacheBody(1)

NextApp ==
  \/ \E t \in 1..AppThreads, k \in AppKeys : AppAccess(t, k)
  \/ \E t \in 1..AppThreads : AppRelease(t)
  \/ AppFreeCache

SpecApp == InitApp /\ [][NextApp]_vars

\* ================================================================ claims
Resident(k) == \E i \in Slots : keys[i] = k

\* accessCache(cache, k, ...) called by thread t, whatever path it takes.
AccessCall(t, k) ==
  AccessHang(t, k) \/ AccessHit(t, k) \/ AccessMiss(t, k) \/ AccessAllocFail(t, k)

Admitted(c) == cells[c].st # "none"

OccupiedFor(i) ==
  \E h \in DOMAIN index.table :
    index.table[h].state = STATE_OCCUPIED /\ index.table[h].cache_index = i

\* C1 - Pin safety: before destroy, every handle returned by access and not
\* yet released refers to a cell that has not been freed, also when the
\* cell's slot has been reused by a later eviction.
PinSafety ==
  ~destroyed =>
    \A t \in Threads, c \in CellIds : held[t][c] > 0 => cells[c].st = "live"

\* A held cell that was evicted, with every slot occupied by other cells.
PinSafetyWitness ==
  /\ ~destroyed
  /\ \E t \in Threads, c \in CellIds :
       /\ held[t][c] > 0
       /\ cells[c].st = "live"
       /\ cells[c].index = EVICTED
       /\ \A i \in Slots : values[i] # NULL /\ values[i] # c

\* C2 as claimed - every public operation (access, release, destroy,
\* print_state) holds the mutex while it is in its body, so no two threads
\* are in the body of a public operation at once.
MutexDiscipline ==
  /\ \A t \in Threads : pc[t] \in InCall => lock = t
  /\ \A t, u \in Threads : (t # u /\ pc[t] \in InCall) => pc[u] \notin InCall

\* C2 as amended - access and release hold the mutex from entry to return and
\* give it back on every return path; two threads are never both inside
\* access or release.
MutexAccessRelease ==
  ~destroyed =>
    /\ \A t \in Threads : pc[t] \in {"access", "release"} => lock = t
    /\ \A t, u \in Threads :
         (t # u /\ pc[t] \in {"access", "release"}) => pc[u] \notin {"access", "release"}
    /\ (\A t \in Threads : pc[t] \notin {"access", "release", "hung"}) => lock = 0

\* One thread is inside release with the mutex after a failed admission left
\* a slot empty, and the other has returned from its call.
MutexAccessReleaseWitness ==
  /\ ~destroyed
  /\ \E t, u \in Threads :
       /\ t # u
       /\ pc[t] = "release" /\ lock = t
       /\ pc[u] = "idle" /\ HeldCount(u) > 0

\* C3 as claimed - every access call returns: no call stays in a probe loop
\* of the index for ever.
AccessReturns == \A t \in Threads : pc[t] # "hung"

\* C4 as claimed - the slot the victim search picks on a miss never holds a
\* cell with refcount > 0: a cell is taken out of its slot only when idle.
VictimNotPinned ==
  [][~destroyed' =>
       \A i \in Slots :
         (values[i] # NULL /\ values'[i] # values[i]) => cells[values[i]].refcount = 0]_vars

\* C5 - Hit reproducibility: an access of a resident key returns the cell in
\* the key's slot with its refcount one higher and its ref_bit 1, and the
\* cell of a slot stays the same as long as the slot keeps its key.
HitReproducible ==
  [][/\ \A t \in Threads, k \in Keys :
          (Resident(k) /\ AccessCall(t, k)) =>
            \E i \in Slots :
              /\ keys[i] = k /\ values[i] # NULL
              /\ cells[values[i]].st = "live" /\ cells'[values[i]].st = "live"
              /\ held'[t][values[i]] = held[t][values[i]] + 1
              /\ cells'[values[i]].refcount = cells[values[i]].refcount + 1
              /\ cells'[values[i]].ref_bit = 1
              /\ keys'[i] = k /\ values'[i] = values[i]
     /\ ~destroyed' =>
          \A i \in Slots :
            (keys[i] # NULL /\ keys'[i] = keys[i]) => values'[i] = values[i]]_vars

\* A resident cell with two handles out: the second came from a hit.
HitReproducibleWitness ==
  /\ ~destroyed
  /\ \E i \in Slots :
       /\ values[i] # NULL
       /\ cells[values[i]].refcount = 2
       /\ Outstanding(values[i]) = 2
       /\ cells[values[i]].ref_bit = 1

\* C6 - Value copy semantics: a cell's payload is the bytes of the caller's
\* buffer at the admission that created it and never changes while the cell
\* lives; a hit changes only the refcount and the ref_bit of the cell it
\* returns.
ValueCopy ==
  [][/\ \A c \in CellIds :
          /\ (cells[c].st = "live" /\ cells'[c].st = "live") => cells'[c].data = cells[c].data
          /\ (cells[c].st = "none" /\ cells'[c].st = "live") => cells'[c].data = buf
     /\ \A t \in Threads, k \in Keys :
          (Resident(k) /\ AccessCall(t, k)) =>
            /\ keys' = keys /\ values' = values
            /\ index' = index /\ clock_hand' = clock_hand
            /\ \A c \in CellIds :
                 cells'[c] = [cells[c] EXCEPT !.refcount = cells'[c].refcount,
                                              !.ref_bit = cells'[c].ref_bit]
            /\ \A c \in CellIds : (\A i \in Slots : keys[i] = k => values[i] # c) =>
                 cells'[c] = cells[c]]_vars

\* A held cell with two handles out whose payload differs from what the
\* caller's buffer holds now.
ValueCopyWitness ==
  /\ ~destroyed
  /\ \E c \in CellIds :
       /\ cells[c].st = "live"
       /\ Outstanding(c) = 2
       /\ cells[c].data # buf

Retired(c) == \E i \in Slots : values[i] = c /\ values'[i] # c

Released(c) == \E t \in Threads : held'[t][c] = held[t][c] - 1

\* C7 - Cell destruction rule: while the cache is not destroyed a live cell
\* is freed exactly when (a) it is retired from its slot with refcount 0 or
\* (b) a release brings its refcount to 0 while its index is EVICTED; a
\* release of a cell still in its slot only decrements.
CellDestruction ==
  [][~destroyed' =>
       \A c \in CellIds :
         cells[c].st = "live" =>
           /\ cells'[c].st = "freed" <=>
                \/ Retired(c) /\ cells[c].refcount = 0
                \/ Released(c) /\ cells[c].refcount = 1 /\ cells[c].index = EVICTED
           /\ (Released(c) /\ cells[c].index # EVICTED) =>
                /\ cells'[c].st = "live"
                /\ cells'[c].refcount = cells[c].refcount - 1
                /\ cells'[c].index = cells[c].index
           /\ cells'[c].st \in {"live", "freed"}]_vars

\* A freed cell, a cell alive after its eviction, and an idle cell in a slot.
CellDestructionWitness ==
  /\ ~destroyed
  /\ \E c \in CellIds : cells[c].st = "freed"
  /\ \E c \in CellIds : cells[c].st = "live" /\ cells[c].index = EVICTED
  /\ \E i \in Slots : values[i] # NULL /\ cells[values[i]].refcount = 0

\* C8 - Release balances access: a cell all of whose handles have been
\* released is either in its slot with refcount 0 or freed exactly once; no
\* cell is freed twice.
ReleaseBalance ==
  \A c \in CellIds :
    /\ cells[c].frees <= 1
    /\ (Admitted(c) /\ Outstanding(c) = 0) =>
         \/ /\ ~destroyed
            /\ cells[c].st = "live" /\ cells[c].refcount = 0
            /\ cells[c].index \in Slots /\ values[cells[c].index] = c
         \/ cells[c].st = "freed" /\ cells[c].frees = 1

\* No handle is out; one cell was freed and another sits idle in its slot.
ReleaseBalanceWitness ==
  /\ ~destroyed
  /\ \A c \in CellIds : Outstanding(c) = 0
  /\ \E c \in CellIds : cells[c].st = "freed" /\ cells[c].frees = 1
  /\ \E i \in Slots : values[i] # NULL /\ cells[values[i]].refcount = 0

SlotPresence ==
  ~destroyed =>
    \A i \in Slots :
      /\ (keys[i] # NULL) <=> (values[i] # NULL)
      /\ (keys[i] # NULL) <=> OccupiedFor(i)

\* A slot left empty by a failed admission: its old key's entry is a
\* TOMBSTONE and nothing maps to it.
SlotPresenceWitness ==
  /\ ~destroyed
  /\ \E i \in Slots :
       /\ keys[i] = NULL /\ values[i] = NULL
       /\ \E h \in DOMAIN index.table :
            index.table[h].state = STATE_TOMBSTONE /\ index.table[h].cache_index = i

\* The entries of the index ht that are OCCUPIED with key k.
OccupiedEntries(ht, k) ==
  {h \in DOMAIN ht.table : ht.table[h].state = STATE_OCCUPIED /\ ht.table[h].key = k}

EntriesOf(k) == OccupiedEntries(index, k)

\* C11 - Slot/index consistency: while the cache exists, for every occupied
\* slot i the lookup of keys[i] returns i and exactly one OCCUPIED entry holds
\* that key; for every OCCUPIED entry (k, i), keys[i] = k and the cell in
\* slot i has index i.  Tombstones left by erasing other keys, and inserts
\* that reuse them, do not hide or duplicate a resident key.
SlotIndexConsistency ==
  ~destroyed =>
    /\ \A i \in Slots :
         keys[i] # NULL =>
           /\ ~getCacheIndex(index, keys[i]).hang
           /\ getCacheIndex(index, keys[i]).index = i
           /\ Cardinality(EntriesOf(keys[i])) = 1
    /\ \A h \in DOMAIN index.table :
         index.table[h].state = STATE_OCCUPIED =>
           /\ index.table[h].cache_index \in Slots
           /\ keys[index.table[h].cache_index] = index.table[h].key
           /\ values[index.table[h].cache_index] # NULL
           /\ cells[values[index.table[h].cache_index]].st = "live"
           /\ cells[values[index.table[h].cache_index]].index = index.table[h].cache_index

\* A resident key whose entry lies beyond a TOMBSTONE at its home entry: the
\* key that pushed it there was erased and another key was inserted since.
SlotIndexConsistencyWitness ==
  /\ ~destroyed
  /\ ncells >= 3
  /\ \E i \in Slots, h \in DOMAIN index.table :
       /\ keys[i] # NULL
       /\ h = hash(keys[i], index.size)
       /\ index.table[h].state = STATE_TOMBSTONE
       /\ h \notin EntriesOf(keys[i])
       /\ getCacheIndex(index, keys[i]).index = i

\* The slot findClockVictim picks in the current state.
VictimIdx == findClockVictim(keys, values, cells, cache_size, clock_hand).idx

\* C12 - Allocation failure during admission: an access that misses and fails
\* on the allocation of the key, the cell or the payload returns NULL with the
\* mutex released; nothing it allocated stays allocated; the victim slot is
\* empty in keys and values; the index has no OCCUPIED entry for the new key
\* nor for the victim's old key; every other slot keeps its key, its cell (with
\* its payload, refcount and index) and its index entry.
AllocFailureRollback ==
  [][\A t \in Threads, k \in Keys :
       AccessAllocFail(t, k) =>
         /\ lock' = 0 /\ pc'[t] = "idle"
         /\ held' = held
         /\ ncells' = ncells
         /\ \A c \in CellIds : cells[c].st = "none" => cells'[c].st = "none"
         /\ keys'[VictimIdx] = NULL /\ values'[VictimIdx] = NULL
         /\ OccupiedEntries(index', k) = {}
         /\ keys[VictimIdx] # NULL => OccupiedEntries(index', keys[VictimIdx]) = {}
         /\ \A i \in Slots \ {VictimIdx} :
              /\ keys'[i] = keys[i] /\ values'[i] = values[i]
              /\ values[i] # NULL =>
                   cells'[values[i]] =
                     [cells[values[i]] EXCEPT !.ref_bit = cells'[values[i]].ref_bit]
              /\ keys[i] # NULL =>
                   /\ OccupiedEntries(index', keys[i]) = OccupiedEntries(index, keys[i])
                   /\ \A h \in OccupiedEntries(index, keys[i]) :
                        index'.table[h] = index.table[h]]_vars

\* No call is under way, a slot is empty after its occupant was evicted (its
\* entry is a TOMBSTONE), the hand has moved past it and the other slot still
\* holds its key and a live cell.
AllocFailureRollbackWitness ==
  /\ ~destroyed /\ lock = 0
  /\ \A t \in Threads : pc[t] = "idle"
  /\ \E v \in Slots, i \in Slots :
       /\ v # i
       /\ keys[v] = NULL /\ values[v] = NULL
       /\ clock_hand = (v + 1) % cache_size
       /\ \E h \in DOMAIN index.table :
            index.table[h].state = STATE_TOMBSTONE /\ index.table[h].cache_index = v
       /\ keys[i] # NULL /\ values[i] # NULL
       /\ cells[values[i]].st = "live"
       /\ getCacheIndex(index, keys[i]).index = i

MissCall(t, k) == AccessMiss(t, k) \/ AccessAllocFail(t, k)

Pinned(i) == values[i] # NULL /\ cells[values[i]].refcount > 0

\* No slot is pinned and every occupied slot's cell has ref_bit = 0.
SteadyState ==
  /\ ~destroyed
  /\ \A i \in Slots : values[i] # NULL =>
       cells[values[i]].refcount = 0 /\ cells[values[i]].ref_bit = 0

\* C14 - Eviction order: from a state where no slot is pinned and every
\* occupied slot's cell has ref_bit = 0, the victim of the next miss is the
\* slot the clock hand names, the hand moves one slot on, and no other slot's
\* key, cell or ref_bit changes.
EvictionOrder ==
  [][SteadyState =>
       /\ VictimIdx = clock_hand
       /\ \A t \in Threads, k \in Keys :
            MissCall(t, k) =>
              /\ clock_hand' = (clock_hand + 1) % cache_size
              /\ AccessMiss(t, k) =>
                   /\ keys'[clock_hand] = k
                   /\ values'[clock_hand] = ncells'
                   /\ ncells' = ncells + 1
                   /\ values[clock_hand] # NULL => cells'[values[clock_hand]].st = "freed"
              /\ AccessAllocFail(t, k) => keys'[clock_hand] = NULL
              /\ \A i \in Slots \ {clock_hand} :
                   /\ keys'[i] = keys[i] /\ values'[i] = values[i]
                   /\ values[i] # NULL => cells'[values[i]] = cells[values[i]]]_vars

\* The state after such a miss in a two-slot cache: the hand named the second
\* slot, whose idle entry was evicted for the new key although the first slot
\* was empty, and the hand is back at the first slot.
EvictionOrderWitness ==
  /\ ~destroyed /\ cache_size = 2 /\ ncells = 3
  /\ keys[0] = NULL /\ values[0] = NULL
  /\ keys[1] # NULL /\ values[1] = ncells
  /\ cells[values[1]].refcount = 1 /\ cells[values[1]].ref_bit = 1
  /\ clock_hand = 0
  /\ \A c \in CellIds : c # ncells => cells[c].st = "freed"

\* What findClockVictim returns and does in the current state; attempts is the
\* number of times its sweep advanced the hand past a slot it did not take.
Victim == findClockVictim(keys, values, cells, cache_size, clock_hand)

\* C15 - Second chance: an entry whose ref_bit is 1 when the hand reaches it
\* is not taken at that visit; when an entry that had ref_bit = 1 at the start
\* of a victim search is the victim, the hand has advanced at least C times
\* first, past every slot: every other slot is occupied and has ref_bit 0
\* afterwards.  A victim found by the sweep is the slot the hand stood on.
SecondChance ==
  [][~destroyed =>
       /\ (values[clock_hand] # NULL /\ keys[clock_hand] # NULL
             /\ cells[values[clock_hand]].ref_bit = 1) => Victim.attempts >= 1
       /\ (values[Victim.idx] # NULL /\ cells[values[Victim.idx]].ref_bit = 1) =>
            Victim.attempts >= cache_size
       /\ Victim.swept => Victim.hand = (Victim.idx + 1) % cache_size
       /\ \A t \in Threads, k \in Keys :
            MissCall(t, k) =>
              /\ clock_hand' = Victim.hand
              /\ \A i \in Slots :
                   (values[i] # NULL /\ values'[i] # values[i]) =>
                     /\ i = Victim.idx
                     /\ cells[values[i]].ref_bit = 1 =>
                          \A j \in Slots \ {i} :
                            /\ values[j] # NULL /\ values'[j] = values[j]
                            /\ cells'[values[j]].ref_bit = 0]_vars

\* After a miss in a full two-slot cache whose entries both had ref_bit 1 and
\* no holder: the first pass cleared both, the second took the slot the hand
\* started on, and the other entry is still resident with ref_bit 0.
SecondChanceWitness ==
  /\ ~destroyed /\ cache_size = 2 /\ ncells = 3
  /\ \E i, j \in Slots :
       /\ i # j
       /\ values[i] = ncells /\ cells[values[i]].ref_bit = 1
       /\ clock_hand = j
       /\ values[j] # NULL
       /\ cells[values[j]].ref_bit = 0 /\ cells[values[j]].refcount = 0
  /\ \E c \in CellIds : cells[c].st = "freed"
  /\ \A c \in CellIds : cells[c].st # "none" /\ cells[c].index # EVICTED

\* An insertHash call that returns and whose rehash, if any, got its table.
InsertReturns(t, k, i) == IndexInsert(t, k, i, TRUE) /\ pc'[t] = "idle"

ForcedEvictionLastResort ==
  [][~destroyed =>
       /\ Victim.forced <=> \A i \in Slots : Pinned(i)
       /\ Pinned(Victim.idx) => \A i \in Slots : Pinned(i)
       /\ (\E i \in Slots : ~Pinned(i)) =>
            /\ keys[Victim.idx] = NULL \/ cells[values[Victim.idx]].refcount = 0
            /\ \A t \in Threads, k \in Keys :
                 MissCall(t, k) =>
                   /\ \A i \in Slots :
                        (values[i] # NULL /\ values'[i] # values[i]) =>
                          /\ cells[values[i]].refcount = 0
                          /\ cells'[values[i]].st = "freed"
                   /\ \A c \in CellIds :
                        (cells[c].st = "live" /\ cells[c].index # EVICTED) =>
                          (cells'[c].st = "freed" \/ cells'[c].index = cells[c].index)]_vars

\* A two-slot cache after a miss that found the slot under the hand pinned:
\* the pinned cell is still in its slot with its ref_bit cleared by the sweep,
\* and the idle cell of the other slot was evicted for the new key.
ForcedEvictionLastResortWitness ==
  /\ ~destroyed /\ cache_size = 2 /\ ncells = 3
  /\ \E i, j \in Slots :
       /\ i # j
       /\ values[i] # NULL /\ values[i] < values[j]
       /\ cells[values[i]].refcount > 0 /\ cells[values[i]].ref_bit = 0
       /\ Outstanding(values[i]) > 0
       /\ values[j] = ncells
       /\ clock_hand = i
  /\ \E c \in CellIds : cells[c].st = "freed"

\* The cache after n accesses of distinct keys from empty: slots 0..n-1 hold
\* the cells 1..n in the order of their admission, every ref_bit is 1, the
\* hand is at n mod C; r is the number of handles out on the last cell (1
\* before its release, 0 after), the earlier ones are released.
FillShape(n, r) ==
  /\ ~destroyed
  /\ ncells = n
  /\ clock_hand = n % cache_size
  /\ \A i \in Slots :
       IF i < n
       THEN /\ keys[i] # NULL /\ values[i] = i + 1
            /\ cells[i + 1].st = "live" /\ cells[i + 1].index = i
            /\ cells[i + 1].ref_bit = 1
            /\ cells[i + 1].refcount = (IF i + 1 = n THEN r ELSE 0)
            /\ Outstanding(i + 1) = (IF i + 1 = n THEN r ELSE 0)
       ELSE keys[i] = NULL /\ values[i] = NULL

\* C18 - Fill then evict: from an empty cache of capacity C, C accesses of
\* distinct keys each followed by release fill slots 0..C-1 in order and leave
\* the hand at 0 with every ref_bit = 1; the next miss clears the ref_bit of
\* all C entries in one pass, evicts slot 0 on the second pass, admits the new
\* key there with refcount 1 and ref_bit 1, and leaves the hand at 1 mod C and
\* the other entries' ref_bit at 0.
FillThenEvict ==
  [][\A n \in 0..MaxCacheSize :
       n <= cache_size =>
         /\ (n >= 1 /\ FillShape(n, 1)) =>
              \A t \in Threads : Release(t, n) => FillShape(n, 0)'
         /\ FillShape(n, 0) =>
              \A t \in Threads, k \in Keys :
                (AccessMiss(t, k) /\ n < cache_size) => FillShape(n + 1, 1)'
         /\ (FillShape(n, 0) /\ n = cache_size) =>
              /\ clock_hand = 0
              /\ Victim.idx = 0 /\ Victim.attempts = cache_size /\ Victim.swept
              /\ \A t \in Threads, k \in Keys :
                   AccessMiss(t, k) =>
                     /\ keys'[0] = k /\ values'[0] = n + 1
                     /\ cells'[1].st = "freed"
                     /\ cells'[n + 1].st = "live" /\ cells'[n + 1].index = 0
                     /\ cells'[n + 1].refcount = 1 /\ cells'[n + 1].ref_bit = 1
                     /\ clock_hand' = 1 % cache_size
                     /\ \A i \in Slots \ {0} :
                          /\ keys'[i] = keys[i] /\ values'[i] = values[i]
                          /\ cells'[values[i]] = [cells[values[i]] EXCEPT !.ref_bit = 0]]_vars

\* A two-slot cache after its fill and the next miss: the newest cell is in
\* slot 0 with refcount 1 and ref_bit 1, the first cell is freed, the second
\* is still in slot 1 with its ref_bit cleared, and the hand is at 1.
FillThenEvictWitness ==
  /\ ~destroyed /\ cache_size = 2 /\ ncells = 3
  /\ values[0] = 3 /\ cells[3].refcount = 1 /\ cells[3].ref_bit = 1
  /\ cells[1].st = "freed"
  /\ values[1] = 2 /\ cells[2].refcount = 0 /\ cells[2].ref_bit = 0
  /\ clock_hand = 1

\* The capacity-4 cache after "A", "B", "C", "D" (keys 1..4) were admitted in
\* that order and released: they are in slots 0..3 with ref_bit 1, the hand
\* is at 0; r handles are out on A's cell and none on the others.
ScenarioState(r) ==
  /\ ~destroyed
  /\ cache_size = APP_CACHE_SIZE /\ ncells = APP_CACHE_SIZE
  /\ clock_hand = 0
  /\ \A i \in Slots :
       /\ keys[i] = i + 1 /\ values[i] = i + 1
       /\ cells[i + 1].st = "live" /\ cells[i + 1].index = i
       /\ cells[i + 1].ref_bit = 1
       /\ cells[i + 1].refcount = (IF i = 0 THEN r ELSE 0)
       /\ Outstanding(i + 1) = (IF i = 0 THEN r ELSE 0)

\* C19 as claimed - Second-chance scenario: in a capacity-4 cache where A, B,
\* C, D were admitted in that order and each released (hand = 0), after a
\* further hit on A (handle released) a miss on the new key E (key 5) evicts
\* B and keeps A resident.
SecondChanceScenario ==
  [][ScenarioState(0) =>
       \A t \in Threads :
         AppMiss(t, 5) => (keys'[0] = 1 /\ keys'[1] = 5)]_vars

\* C19 as amended - in that cache the hit on A changes no ref_bit (every
\* ref_bit is 1 since the admissions) and its release leaves the cache as it
\* was after the fill; the miss on E clears the four ref_bits in one pass and
\* evicts A from slot 0 on the second: E is admitted at slot 0, B, C and D
\* stay resident with ref_bit 0, and the hand is at 1.
SecondChanceScenarioEvictsA ==
  [][/\ \A n \in 0..(APP_CACHE_SIZE - 1) :
          (FillShape(n, 0) /\ cache_size = APP_CACHE_SIZE) =>
            \A t \in Threads, k \in AppKeys :
              AppMiss(t, k) => (FillShape(n + 1, 1)' /\ keys'[n] = k)
     /\ ScenarioState(0) =>
          /\ \A t \in Threads :
               AppAccess(t, 1) => (AppHit(t, 1) /\ ScenarioState(1)')
          /\ \A t \in Threads :
               AppMiss(t, 5) =>
                 /\ keys' = [keys EXCEPT ![0] = 5]
                 /\ values' = [values EXCEPT ![0] = ncells + 1]
                 /\ cells'[1].st = "freed"
                 /\ cells'[ncells + 1].refcount = 1 /\ cells'[ncells + 1].ref_bit = 1
                 /\ \A i \in Slots \ {0} :
                      cells'[values[i]] = [cells[values[i]] EXCEPT !.ref_bit = 0]
                 /\ clock_hand' = 1
     /\ ScenarioState(1) =>
          \A t \in Threads : Release(t, 1) => ScenarioState(0)']_vars

\* The cache after the scenario: E in slot 0 in place of A, whose cell is
\* freed; B, C, D in slots 1..3 with ref_bit 0; the hand at 1.
SecondChanceScenarioWitness ==
  /\ ~destroyed /\ cache_size = APP_CACHE_SIZE
  /\ keys = [i \in Slots |-> IF i = 0 THEN 5 ELSE i + 1]
  /\ values = [i \in Slots |-> IF i = 0 THEN 5 ELSE i + 1]
  /\ cells[1].st = "freed"
  /\ \A i \in Slots \ {0} : cells[values[i]].ref_bit = 0 /\ cells[values[i]].refcount = 0
  /\ cells[5].ref_bit = 1
  /\ clock_hand = 1

\* Cell c is alive outside the slot array: taken out of its slot while held.
LiveEvicted(c) == cells[c].st = "live" /\ cells[c].index = EVICTED

\* C20 - Evicted-cell invariant V2: every live cell whose index is EVICTED is
\* referenced by no slot and has refcount >= 1; a cell becomes EVICTED only by
\* being retired from its slot while refcount > 0 (and then always does), and
\* an EVICTED cell never returns to a slot: it stays EVICTED until it is freed.
EvictedCellInvariant ==
  [][\A c \in CellIds :
       /\ LiveEvicted(c) =>
            /\ cells[c].refcount >= 1
            /\ \A i \in Slots : values[i] # c
       /\ LiveEvicted(c)' =>
            /\ cells'[c].refcount >= 1
            /\ \A i \in Slots : values'[i] # c
       /\ (~LiveEvicted(c) /\ LiveEvicted(c)') =>
            /\ cells[c].st = "live"
            /\ Retired(c) /\ cells[c].refcount > 0
       /\ (~destroyed' /\ Retired(c) /\ cells[c].refcount > 0) => LiveEvicted(c)'
       /\ LiveEvicted(c) =>
            \/ LiveEvicted(c)'
            \/ cells'[c].st = "freed" /\ Released(c) /\ cells[c].refcount = 1]_vars

\* Two cells alive outside the slot array at once, each with a handle out,
\* while a third cell is in the slot.
EvictedCellInvariantWitness ==
  /\ ~destroyed
  /\ \E c, d \in CellIds :
       /\ c # d
       /\ LiveEvicted(c) /\ LiveEvicted(d)
       /\ Outstanding(c) >= 1 /\ Outstanding(d) >= 1
  /\ \E i \in Slots : values[i] # NULL /\ cells[values[i]].index = i

\* The number of OCCUPIED entries of the index ht.
OccupiedCount(ht) ==
  Cardinality({h \in DOMAIN ht.table : ht.table[h].state = STATE_OCCUPIED})

\* The entries of the index ht that are TOMBSTONEs.
Tombstones(ht) == {h \in DOMAIN ht.table : ht.table[h].state = STATE_TOMBSTONE}

\* C21 - Occupancy counter: before and after every index operation used equals
\* the number of OCCUPIED entries (TOMBSTONE entries are not counted); an
\* insert of a key that has an entry overwrites it and leaves used as it was;
\* an insert of a key that has none and returns adds one, also when the entry
\* it takes is a TOMBSTONE; an erase of a key that has an entry takes one off
\* and leaves a TOMBSTONE, an erase of any other key changes nothing.
OccupancyCounter ==
  [][/\ index.used = OccupiedCount(index)
     /\ index'.used = OccupiedCount(index')
     /\ \A t \in Threads, k \in Keys, i \in Slots :
          \A malloc_ok \in RehashOutcomes(index) :
            (IndexInsert(t, k, i, malloc_ok) /\ pc'[t] = "idle") =>
              /\ EntriesOf(k) # {} => index'.used = index.used
              /\ EntriesOf(k) = {} => index'.used = index.used + 1
              /\ \A h \in Tombstones(index) :
                   (index'.size = index.size /\ index'.table[h].state = STATE_OCCUPIED) =>
                     /\ index'.used = index.used + 1
                     /\ Tombstones(index') = Tombstones(index) \ {h}
     /\ \A t \in Threads, k \in Keys :
          IndexErase(t, k) =>
            IF EntriesOf(k) # {} /\ pc'[t] = "idle"
            THEN /\ index'.used = index.used - 1
                 /\ Tombstones(index') = Tombstones(index) \cup EntriesOf(k)
            ELSE index' = index]_vars

\* An index of 5 entries in which a key was inserted again after its erase and
\* took the TOMBSTONE at its home entry, left by the key that had pushed it one
\* entry on: its old entry is a TOMBSTONE and is not counted.
OccupancyCounterWitness ==
  /\ IndexIdle
  /\ \E h \in DOMAIN index.table :
       /\ index.table[h].state = STATE_OCCUPIED
       /\ h = hash(index.table[h].key, index.size)
       /\ index.table[(h + 1) % index.size].state = STATE_TOMBSTONE
       /\ index.table[(h + 1) % index.size].key = index.table[h].key
  /\ index.used = 1
  /\ Cardinality(Tombstones(index)) = 1

\* The slots the hand is advanced past, without taking them, by the victim
\* search of the current state.
SkippedSlots == {(clock_hand + j) % cache_size : j \in 0..(Victim.attempts - 1)}

\* Slot i holds an entry that the sweep takes when the hand stands on it.
Evictable(i) ==
  /\ values[i] # NULL /\ keys[i] # NULL
  /\ cells[values[i]].refcount = 0 /\ cells[values[i]].ref_bit = 0

\* C22 - The sweep clears the reference bit of pinned entries too: every slot
\* the hand skips during a victim search is occupied and was skipped because
\* ref_bit = 1 or refcount > 0, and its cell has ref_bit = 0 when the search
\* returns; after the miss a skipped entry that is still in its slot has
\* ref_bit 0 and its refcount unchanged.  A release leaves the ref_bit as it
\* is, a hit sets it; so the first entry from the hand on that has refcount 0
\* and ref_bit 0 (a formerly pinned one whose last handle was released and
\* that was not hit again included) is the victim of the next search, taken at
\* the hand's first visit.
SweepClearsPinned ==
  [][~destroyed =>
       /\ \A i \in SkippedSlots :
            /\ values[i] # NULL /\ keys[i] # NULL
            /\ i # Victim.idx =>
                 (cells[values[i]].ref_bit = 1 \/ cells[values[i]].refcount > 0)
            /\ Victim.cells[values[i]] = [cells[values[i]] EXCEPT !.ref_bit = 0]
       /\ \A c \in CellIds :
            (\A i \in SkippedSlots : values[i] # c) => Victim.cells[c] = cells[c]
       /\ \A t \in Threads, k \in Keys :
            MissCall(t, k) =>
              \A i \in SkippedSlots :
                /\ values'[i] = values[i] =>
                     cells'[values[i]] = [cells[values[i]] EXCEPT !.ref_bit = 0]
                /\ (Pinned(i) /\ ~Victim.forced) => values'[i] = values[i]
       /\ \A t \in Threads, c \in CellIds :
            (Release(t, c) /\ cells'[c].st = "live") =>
              cells'[c] = [cells[c] EXCEPT !.refcount = @ - 1]
       /\ \A t \in Threads, k \in Keys :
            AccessHit(t, k) =>
              \E i \in Slots : keys[i] = k /\ cells'[values[i]].ref_bit = 1
       /\ \A d \in 0..(cache_size - 1) :
            (/\ Evictable((clock_hand + d) % cache_size)
             /\ \A e \in 0..(d - 1) :
                  /\ values[(clock_hand + e) % cache_size] # NULL
                  /\ ~Evictable((clock_hand + e) % cache_size)) =>
              /\ Victim.swept
              /\ Victim.idx = (clock_hand + d) % cache_size
              /\ Victim.attempts = d]_vars

\* A two-slot cache in which the entry of slot 0 was pinned while a miss
\* swept past it twice and took the idle entry of slot 1 instead, and was
\* released since: it has refcount 0 and ref_bit 0 with the hand on it, and is
\* the victim of the next search although it is the oldest access.
SweepClearsPinnedWitness ==
  /\ ~destroyed /\ cache_size = 2 /\ ncells = 3
  /\ values[0] = 1 /\ values[1] = 3
  /\ cells[2].st = "freed"
  /\ cells[1].refcount = 0 /\ cells[1].ref_bit = 0 /\ Outstanding(1) = 0
  /\ cells[3].ref_bit = 1
  /\ clock_hand = 0
  /\ Victim.idx = 0 /\ Victim.attempts = 0

\* The index that a rehash whose allocation succeeds makes of the current one.
Rehashed == rehash(index, TRUE)

\* C23 - Rehash preserves the mapping: for every index state and every key
\* that lookup finds in it, lookup after a successful rehash returns the same
\* slot; a key with no entry before has none after and its lookup returns
\* NOT_FOUND; the new table has next_prime(2 * H) entries, none of them a
\* TOMBSTONE, and used equals the number of OCCUPIED entries migrated.  The
\* insert that triggered the rehash then adds its key to the new table and
\* leaves the other keys' lookups as the rehash made them.
RehashPreservesMapping ==
  [][/\ Rehashed.size = next_prime(index.size * 2)
     /\ \A k \in Keys :
          /\ ~getCacheIndex(Rehashed, k).hang
          /\ (~getCacheIndex(index, k).hang /\ getCacheIndex(index, k).index # NOT_FOUND) =>
               getCacheIndex(Rehashed, k).index = getCacheIndex(index, k).index
          /\ EntriesOf(k) = {} =>
               /\ getCacheIndex(Rehashed, k).index = NOT_FOUND
               /\ OccupiedEntries(Rehashed, k) = {}
          /\ Cardinality(OccupiedEntries(Rehashed, k)) = Cardinality(EntriesOf(k))
     /\ Tombstones(Rehashed) = {}
     /\ Rehashed.used = OccupiedCount(index)
     /\ Rehashed.used = OccupiedCount(Rehashed)
     /\ \A t \in Threads, k \in Keys, i \in Slots :
          (IndexInsert(t, k, i, TRUE) /\ (index.used * 10) \div index.size >= 7) =>
            /\ pc'[t] = "idle"
            /\ index'.size = Rehashed.size
            /\ Tombstones(index') = {}
            /\ getCacheIndex(index', k).index = i
            /\ \A k2 \in Keys \ {k} :
                 getCacheIndex(index', k2) = getCacheIndex(Rehashed, k2)]_vars

\* The index of a one-slot cache after the insert of a third key found its
\* two entries OCCUPIED and rehashed it to 5: the three keys are found, two of
\* them share a home entry in the new table, and a rehash of this index to 11
\* entries would again return the same slot for each.
RehashPreservesMappingWitness ==
  /\ IndexIdle
  /\ index.size = 5 /\ cache_size = 1
  /\ \A k \in Keys : getCacheIndex(index, k).index = 0
  /\ \E k, k2 \in Keys : k # k2 /\ hash(k, index.size) = hash(k2, index.size)
  /\ Rehashed.size = 11
  /\ \A k \in Keys : getCacheIndex(Rehashed, k).index = 0

\* insertHash(cache, k, i) by thread t that finds the index at least 70% full
\* and whose rehash fails to allocate the larger table.
InsertRehashFails(t, k, i) ==
  IndexInsert(t, k, i, FALSE) /\ (index.used * 10) \div index.size >= 7

\* C24 - Rehash failure is non-fatal: when the allocation of the larger table
\* fails, the index table, its capacity H, the counter used and every entry
\* are exactly as before the rehash attempt, and the insert that triggered it
\* still completes in the old table: it returns, and the key is found there
\* with the slot it was inserted with.
RehashFailureNonFatal ==
  [][\A t \in Threads, k \in Keys, i \in Slots :
       InsertRehashFails(t, k, i) =>
         /\ rehash(index, FALSE) = index
         /\ index'.size = index.size
         /\ pc'[t] = "idle"
         /\ getCacheIndex(index', k).index = i
         /\ index'.used = OccupiedCount(index')]_vars

\* C25 - Refcount equals outstanding handles: with every returned handle
\* released at most once, the refcount of every live cell, in its slot or
\* EVICTED, equals the number of handles to it that were returned and not yet
\* released, and is never negative; no handle was ever returned to a cell that
\* was not admitted.
RefcountIsOutstanding ==
  \A c \in CellIds :
    /\ cells[c].st = "live" =>
         /\ cells[c].refcount = Outstanding(c)
         /\ cells[c].refcount >= 0
    /\ cells[c].st = "none" => Outstanding(c) = 0

\* A one-slot cache whose first cell was evicted while one thread held it and
\* whose second cell, in the slot, was returned to both threads: the EVICTED
\* cell has refcount 1, the resident one refcount 2.
RefcountIsOutstandingWitness ==
  /\ ~destroyed
  /\ \E c, d \in CellIds :
       /\ LiveEvicted(c) /\ cells[c].refcount = 1 /\ Outstanding(c) = 1
       /\ cells[d].st = "live" /\ cells[d].index \in Slots /\ values[cells[d].index] = d
       /\ cells[d].refcount = 2
       /\ \A t \in Threads : held[t][d] = 1

\* The index on which accessCache calls insertHash when it misses in the
\* current state: the victim's key is erased from it.
IndexAtInsert == EvictVictim(keys, values, cells, index, cache_size, clock_hand).index

\* C26 - The index never grows in use: while the cache exists used <= C and
\* the index capacity is next_prime(2 * C), as createCache made it; the grow
\* condition that insertHash tests is false on the index every miss hands to
\* it, so rehash never runs; and no entry that is not EMPTY becomes EMPTY
\* again: a TOMBSTONE stays a TOMBSTONE until an insert reuses it.
IndexNeverGrows ==
  [][~destroyed =>
       /\ index.used <= cache_size
       /\ index.size = next_prime(cache_size * 2)
       /\ (index.used * 10) \div index.size < 7
       /\ (IndexAtInsert.used * 10) \div IndexAtInsert.size < 7
       /\ RehashOutcomes(IndexAtInsert) = {TRUE}
       /\ ~destroyed' =>
            /\ index'.used <= cache_size
            /\ index'.size = index.size
            /\ \A h \in DOMAIN index.table :
                 /\ index.table[h].state # STATE_EMPTY => index'.table[h].state # STATE_EMPTY
                 /\ index'.table[h].state = STATE_TOMBSTONE =>
                      index.table[h].state # STATE_EMPTY
       /\ \A t \in Threads, k \in Keys :
            AccessMiss(t, k) => index'.size = IndexAtInsert.size]_vars

\* An index that holds more entries that are not EMPTY than the cache has
\* slots: every slot's key has its OCCUPIED entry, the keys evicted before
\* have left TOMBSTONEs, and the capacity is still the initial one.
IndexNeverGrowsWitness ==
  /\ ~destroyed
  /\ index.used = cache_size
  /\ Tombstones(index) # {}
  /\ index.used + Cardinality(Tombstones(index)) > cache_size
  /\ index.size = next_prime(cache_size * 2)
  /\ \A i \in Slots : keys[i] # NULL

\* C27 - Clock hand position after a miss: the hand is in [0, C) before and
\* after every call; a victim search returns either from its sweep, and then
\* leaves the hand at (v + 1) mod C for the slot v it returns, or by forced
\* eviction after 2 * C advances, and then leaves the hand where it was at
\* entry, which is the slot v it returns; the miss moves the hand to where the
\* search left it and no other call moves it.  After a forced eviction the
\* key and cell just admitted are in the slot the hand names.
HandAfterMiss ==
  [][~destroyed =>
       /\ clock_hand \in Slots
       /\ clock_hand' \in Slots
       /\ Victim.swept \/ Victim.forced
       /\ Victim.swept => Victim.hand = (Victim.idx + 1) % cache_size
       /\ Victim.forced =>
            /\ Victim.attempts = 2 * cache_size
            /\ Victim.hand = clock_hand
            /\ Victim.idx = clock_hand
       /\ \A t \in Threads, k \in Keys :
            /\ MissCall(t, k) =>
                 /\ clock_hand' = Victim.hand
                 /\ Victim.swept => clock_hand' = (Victim.idx + 1) % cache_size
                 /\ Victim.forced => clock_hand' = Victim.idx
            /\ (AccessMiss(t, k) /\ Victim.forced /\ pc'[t] = "idle") =>
                 /\ keys'[clock_hand'] = k
                 /\ values'[clock_hand'] = ncells'
                 /\ cells'[ncells'].index = clock_hand'
            /\ (AccessHit(t, k) \/ AccessHang(t, k)) => clock_hand' = clock_hand
       /\ \A t \in Threads, c \in CellIds : Release(t, c) => clock_hand' = clock_hand]_vars

\* A two-slot cache after a miss that found both entries pinned: the entry of
\* slot 0, where the hand stood, was evicted while held, the newest cell is in
\* slot 0 and the hand is still at 0; the other entry is pinned in slot 1 with
\* its ref_bit cleared.
HandAfterMissWitness ==
  /\ ~destroyed /\ cache_size = 2 /\ ncells = 3
  /\ clock_hand = 0
  /\ values[0] = 3 /\ cells[3].index = 0
  /\ LiveEvicted(1)
  /\ values[1] = 2 /\ cells[2].refcount > 0 /\ cells[2].ref_bit = 0

====
